---- MODULE Spec2Model ----
(***************************************************************************)
(* Model of the document Q&A generator: configuration loading (config.py), *)
(* the response parser (utils.py), the document processor and the batch    *)
(* driver (processor.py) and the entry script (main.py).                   *)
(*                                                                         *)
(* Text is a sequence of one-character strings, so that json.loads,        *)
(* json.dump, str.strip, str.startswith and the fence regular expression   *)
(* are computed character by character as the code computes them.          *)
(***************************************************************************)
EXTENDS Integers, Sequences, FiniteSets, TLC

VARIABLES
    env,            \* the process environment read by config.py
    config,         \* the Config instance being built / built
    folder,         \* filesystem: the input folder (exists, files)
    output_dir,     \* argument output_dir of process_multiple_documents
    shuffle_qa,     \* argument shuffle_qa
    shuffle_combined, \* argument shuffle_combined
    pc,             \* position in the running script / function
    doc_files,      \* sorted list of enumerated documents
    idx,            \* loop index into doc_files (1-based)
    llm_value,      \* LLM service: the JSON value it serialized into its answer
    emitted,        \* LLM service: Q&A pairs emitted so far in this run
    llm_response,   \* raw text returned by the LLM for the current document
    cleaned,        \* text produced by clean_json_response
    json_data,      \* parse result of the current document
    all_results,    \* list of successful per-document results
    out_files,      \* filesystem: output path -> content
    handed,         \* history: documents handed to process_document
    succeeded,      \* history: documents whose result was appended to all_results
    failed,         \* history: <<document, stage>> of every exception the loop caught
    write_log,      \* history: every open(..., 'w') that succeeded
    converted,      \* history: documents passed to the converter
    requests,       \* history: chat requests sent to the LLM service
    exit_status,    \* process exit status ("running", 0, 1)
    error           \* the error that ended the run, if any

vars == <<env, config, folder, output_dir, shuffle_qa, shuffle_combined,
          pc, doc_files, idx, llm_value, emitted, llm_response, cleaned, json_data,
          all_results, out_files, handed, succeeded, failed, write_log, converted,
          requests, exit_status, error>>

\* ------------------------------------------------------------------ bounds

\* Largest number of files in the input folder.
MaxFiles == 2

\* Largest number of Q&A pairs the LLM emits over one run.
MaxPairs == 3

\* ------------------------------------------------------------- characters

\* JSON insignificant whitespace (json.decoder.WHITESPACE: space, tab, LF, CR).
JsonWs == {" ", "\t", "\n", "\r"}

\* Whitespace of str.strip() and of the regex class for whitespace: JSON
\* whitespace and more; form feed stands for FF, VT, FS..US, NEL, NBSP, ...
UnicodeWs == JsonWs \cup {"\f"}

\* Characters json.loads rejects unescaped inside a string (code < 0x20).
ControlChars == {"\t", "\n", "\r", "\f"}

Digits == {"0", "1", "2", "3", "4", "5", "6", "7", "8", "9"}

\* The grave accent U+0060 of a markdown fence; the one character written by
\* name, since a TLA+ string literal cannot hold it.
BackTick == "BACKTICK"
Quote == "\""
BackSlash == "\\"

Min(S) == CHOOSE m \in S : \A k \in S : m <= k

StartsWithAt(s, i, p) ==
    /\ i + Len(p) - 1 <= Len(s)
    /\ \A k \in 1..Len(p) : s[i + k - 1] = p[k]

\* ------------------------------------------------------------ JSON values
\* A parsed JSON value is a tagged record: t in {"list","obj","str","num","lit"}.
\* An object keeps its members as a sequence of <<key, value>> in insertion
\* order (a Python dict), a later duplicate key replacing the earlier value.

NoValue == [t |-> "none", v |-> <<>>]
JList(items) == [t |-> "list", v |-> items]
JObj(members) == [t |-> "obj", v |-> members]
JStr(chars) == [t |-> "str", v |-> chars]
IsList(x) == x.t = "list"

Fail == [ok |-> FALSE, v |-> NoValue, i |-> 0]
Ok(val, next) == [ok |-> TRUE, v |-> val, i |-> next]

PutMember(members, k, val) ==
    IF \E n \in 1..Len(members) : members[n][1] = k
    THEN [n \in 1..Len(members) |->
            IF members[n][1] = k THEN <<k, val>> ELSE members[n]]
    ELSE Append(members, <<k, val>>)

\* ------------------------------------------------------- json.loads (str)

\* First index at or after i that holds no JSON whitespace (Len(s)+1 at the end).
SkipWs(s, i) ==
    Min({j \in i..(Len(s) + 1) : j = Len(s) + 1 \/ s[j] \notin JsonWs})

\* The character an escape sequence \c stands for inside a JSON string.
Unescape(c) ==
    CASE c = "n" -> "\n"
      [] c = "t" -> "\t"
      [] c = "r" -> "\r"
      [] c = "f" -> "\f"
      [] OTHER -> c

Escapable == {Quote, BackSlash, "/", "n", "t", "r", "f"}

RECURSIVE ScanString(_, _, _)
\* s[i] is the first character after the opening quote; acc the decoded text.
ScanString(s, i, acc) ==
    IF i > Len(s) THEN Fail
    ELSE IF s[i] = Quote THEN Ok(JStr(acc), i + 1)
    ELSE IF s[i] = BackSlash
         THEN IF i + 1 <= Len(s) /\ s[i + 1] \in Escapable
              THEN ScanString(s, i + 2, Append(acc, Unescape(s[i + 1])))
              ELSE Fail
    ELSE IF s[i] \in ControlChars THEN Fail
    ELSE ScanString(s, i + 1, Append(acc, s[i]))

\* End of the integer starting at s[i] (a digit): "0" alone or a run of digits.
ScanNumber(s, i) ==
    IF s[i] = "0" THEN i + 1
    ELSE Min({j \in (i + 1)..(Len(s) + 1) : j = Len(s) + 1 \/ s[j] \notin Digits})

LitNull == <<"n", "u", "l", "l">>
LitTrue == <<"t", "r", "u", "e">>
LitFalse == <<"f", "a", "l", "s", "e">>

RECURSIVE ParseValue(_, _), ParseElems(_, _, _), ParseMembers(_, _, _)

\* Decode one JSON value starting exactly at s[i].
ParseValue(s, i) ==
    IF i > Len(s) THEN Fail
    ELSE IF s[i] = Quote THEN ScanString(s, i + 1, <<>>)
    ELSE IF s[i] = "["
         THEN LET j == SkipWs(s, i + 1)
              IN  IF j <= Len(s) /\ s[j] = "]" THEN Ok(JList(<<>>), j + 1)
                  ELSE ParseElems(s, j, <<>>)
    ELSE IF s[i] = "{"
         THEN LET j == SkipWs(s, i + 1)
              IN  IF j <= Len(s) /\ s[j] = "}" THEN Ok(JObj(<<>>), j + 1)
                  ELSE ParseMembers(s, j, <<>>)
    ELSE IF s[i] \in Digits
         THEN LET e == ScanNumber(s, i)
              IN  Ok([t |-> "num", v |-> SubSeq(s, i, e - 1)], e)
    ELSE IF StartsWithAt(s, i, LitNull) THEN Ok([t |-> "lit", v |-> LitNull], i + 4)
    ELSE IF StartsWithAt(s, i, LitTrue) THEN Ok([t |-> "lit", v |-> LitTrue], i + 4)
    ELSE IF StartsWithAt(s, i, LitFalse) THEN Ok([t |-> "lit", v |-> LitFalse], i + 5)
    ELSE Fail

\* Array elements from s[i] on, after "[" or "," and whitespace.
ParseElems(s, i, acc) ==
    LET r == ParseValue(s, i)
    IN  IF ~r.ok THEN Fail
        ELSE LET j == SkipWs(s, r.i)
             IN  IF j > Len(s) THEN Fail
                 ELSE IF s[j] = "," THEN ParseElems(s, SkipWs(s, j + 1), Append(acc, r.v))
                 ELSE IF s[j] = "]" THEN Ok(JList(Append(acc, r.v)), j + 1)
                 ELSE Fail

\* Object members from s[i] on, after "{" or "," and whitespace.
ParseMembers(s, i, acc) ==
    IF i > Len(s) \/ s[i] # Quote THEN Fail
    ELSE LET k == ScanString(s, i + 1, <<>>)
         IN  IF ~k.ok THEN Fail
             ELSE LET c == SkipWs(s, k.i)
                  IN  IF c > Len(s) \/ s[c] # ":" THEN Fail
                      ELSE LET r == ParseValue(s, SkipWs(s, c + 1))
                           IN  IF ~r.ok THEN Fail
                               ELSE LET j == SkipWs(s, r.i)
                                        m == PutMember(acc, k.v.v, r.v)
                                    IN  IF j > Len(s) THEN Fail
                                        ELSE IF s[j] = ","
                                             THEN ParseMembers(s, SkipWs(s, j + 1), m)
                                        ELSE IF s[j] = "}" THEN Ok(JObj(m), j + 1)
                                        ELSE Fail

\* json.loads(s): one value between optional JSON whitespace, nothing after it.
JsonLoads(s) ==
    LET r == ParseValue(s, SkipWs(s, 1))
    IN  IF r.ok /\ SkipWs(s, r.i) = Len(s) + 1 THEN Ok(r.v, Len(s) + 1) ELSE Fail

\* --------------------------------- json.dump(indent=2, ensure_ascii=False)

EscapeChar(c) ==
    CASE c = Quote -> <<BackSlash, Quote>>
      [] c = BackSlash -> <<BackSlash, BackSlash>>
      [] c = "\n" -> <<BackSlash, "n">>
      [] c = "\t" -> <<BackSlash, "t">>
      [] c = "\r" -> <<BackSlash, "r">>
      [] c = "\f" -> <<BackSlash, "f">>
      [] OTHER -> <<c>>

RECURSIVE EscapeText(_)
EscapeText(chars) ==
    IF chars = <<>> THEN <<>>
    ELSE EscapeChar(Head(chars)) \o EscapeText(Tail(chars))

DumpString(chars) == <<Quote>> \o EscapeText(chars) \o <<Quote>>

\* A newline followed by two spaces per nesting level.
NewlineIndent(level) == <<"\n">> \o [k \in 1..(2 * level) |-> " "]

RECURSIVE DumpValue(_, _), DumpItems(_, _, _), DumpMembers(_, _, _)

DumpValue(x, level) ==
    CASE x.t = "str" -> DumpString(x.v)
      [] x.t = "list" ->
            IF x.v = <<>> THEN <<"[", "]">>
            ELSE <<"[">> \o DumpItems(x.v, 1, level + 1)
                         \o NewlineIndent(level) \o <<"]">>
      [] x.t = "obj" ->
            IF x.v = <<>> THEN <<"{", "}">>
            ELSE <<"{">> \o DumpMembers(x.v, 1, level + 1)
                         \o NewlineIndent(level) \o <<"}">>
      [] OTHER -> x.v

DumpItems(items, n, level) ==
    NewlineIndent(level) \o DumpValue(items[n], level)
        \o (IF n = Len(items) THEN <<>>
            ELSE <<",">> \o DumpItems(items, n + 1, level))

DumpMembers(members, n, level) ==
    NewlineIndent(level) \o DumpString(members[n][1]) \o <<":", " ">>
        \o DumpValue(members[n][2], level)
        \o (IF n = Len(members) THEN <<>>
            ELSE <<",">> \o DumpMembers(members, n + 1, level))

JsonDump(x) == DumpValue(x, 0)

\* ------------------------------------------------- utils.clean_json_response

\* str.strip(): drop leading and trailing whitespace.
Strip(s) ==
    LET keep == {j \in 1..Len(s) : s[j] \notin UnicodeWs}
    IN  IF keep = {} THEN <<>>
        ELSE SubSeq(s, Min(keep), CHOOSE m \in keep : \A k \in keep : k <= m)

Fence == <<BackTick, BackTick, BackTick>>

\* re.IGNORECASE: the fold of the letters of the tag.
Lower(c) ==
    CASE c = "J" -> "j" [] c = "S" -> "s" [] c = "O" -> "o" [] c = "N" -> "n"
      [] OTHER -> c

TagJson == <<"j", "s", "o", "n">>

HasTagAt(s, i) ==
    /\ i + 3 <= Len(s)
    /\ \A k \in 1..4 : Lower(s[i + k - 1]) = TagJson[k]

\* Indices at which a fence (three grave accents) starts.
FenceStarts(s) == {j \in 1..Len(s) : StartsWithAt(s, j, Fence)}

\* re.search of ```(?:json)?\s*(.*?)\s*``` with DOTALL | IGNORECASE: the
\* leftmost opening fence that has a closing fence after it; the optional tag
\* and the whitespace after it are consumed greedily, group 1 runs lazily to
\* the first closing fence, less the whitespace right before that fence.
\* Returns [found, group1].
FenceSearch(s) ==
    LET opens == {j \in FenceStarts(s) : \E k \in FenceStarts(s) : k >= j + 3}
    IN  IF opens = {} THEN [found |-> FALSE, group |-> <<>>]
        ELSE LET o == Min(opens)
                 t == IF HasTagAt(s, o + 3) THEN o + 7 ELSE o + 3
                 b == Min({j \in t..(Len(s) + 1) :
                              j = Len(s) + 1 \/ s[j] \notin UnicodeWs})
                 c == Min({k \in FenceStarts(s) : k >= b})
                 e == Min({j \in b..c : \A k \in j..(c - 1) : s[k] \in UnicodeWs})
             IN  [found |-> TRUE, group |-> SubSeq(s, b, e - 1)]

CleanJsonResponse(response_text) ==
    LET match == FenceSearch(response_text)
    IN  IF match.found THEN Strip(match.group) ELSE Strip(response_text)

\* ---------------------------------------------------- utils.parse_llm_response

\* The value returned, or a failure standing for the raised JSONDecodeError.
ParseLlmResponse(response_text) ==
    LET direct == JsonLoads(response_text)
    IN  IF direct.ok THEN direct
        ELSE JsonLoads(CleanJsonResponse(response_text))

\* ------------------------------------------------------------- config.py

\* An environment variable: absent (os.getenv gives None) or set to a text.
Absent == [set |-> FALSE, val |-> <<>>]
Set(text) == [set |-> TRUE, val |-> text]

\* Python truthiness of os.getenv(...): None and "" are falsy.
Falsy(x) == ~x.set \/ x.val = <<>>

StartsWith(s, p) == StartsWithAt(s, 1, p)

SchemeHttp == <<"h", "t", "t", "p", ":", "/", "/">>
SchemeHttps == <<"h", "t", "t", "p", "s", ":", "/", "/">>
AllInterfaces == <<"0", ".", "0", ".", "0", ".", "0">>
Localhost == <<"l", "o", "c", "a", "l", "h", "o", "s", "t">>
DefaultPort == <<"1", "1", "4", "3", "4">>
OtherPort == <<"8", "0", "8", "0">>
RemoteHost == <<"l", "l", "m">>

Ports == {DefaultPort, OtherPort}
HostPort(h, port) == h \o <<":">> \o port

\* Config._get_ollama_host after the presence check: the 0.0.0.0 rewrite and
\* the scheme prefix.
NormalizeHost(ollama_host) ==
    LET h == IF ollama_host = HostPort(AllInterfaces, DefaultPort)
             THEN HostPort(Localhost, DefaultPort)
             ELSE ollama_host
    IN  IF ~(StartsWith(h, SchemeHttp) \/ StartsWith(h, SchemeHttps))
        THEN SchemeHttp \o h
        ELSE h

NoConfig ==
    [loaded |-> FALSE, ollama_host |-> <<>>, ollama_model |-> <<>>,
     folder_path |-> <<>>, file_path |-> <<>>]

\* An uncaught exception at import time: the interpreter prints it and exits 1.
Die(what) ==
    /\ pc' = "exited"
    /\ exit_status' = 1
    /\ error' = what

\* Config.__init__, line 13: self.ollama_host = self._get_ollama_host()
GetOllamaHost ==
    /\ pc = "import_config"
    /\ IF Falsy(env.OLLAMA_HOST)
       THEN /\ Die("OLLAMA_HOST environment variable is required")
            /\ UNCHANGED config
       ELSE /\ config' = [config EXCEPT !.ollama_host = NormalizeHost(env.OLLAMA_HOST.val)]
            /\ pc' = "config_init"
            /\ UNCHANGED <<exit_status, error>>
    /\ UNCHANGED <<env, folder, output_dir, shuffle_qa, shuffle_combined, doc_files,
                   idx, llm_value, emitted, llm_response, cleaned, json_data,
                   all_results, out_files, handed, succeeded, failed, write_log,
                   converted, requests>>

\* ConfigInit without the check of FILE_PATH (lines 25-26). The property C8
\* does not hold of it.
ConfigInitWithoutFilePath ==
    /\ pc = "config_init"
    /\ IF Falsy(env.OLLAMA_MODEL)
       THEN /\ Die("OLLAMA_MODEL environment variable is required")
            /\ UNCHANGED config
       ELSE IF Falsy(env.FOLDER_PATH)
       THEN /\ Die("FOLDER_PATH environment variable is required")
            /\ config' = [config EXCEPT !.ollama_model = env.OLLAMA_MODEL.val]
       ELSE /\ config' = [config EXCEPT !.loaded = TRUE,
                                        !.ollama_model = env.OLLAMA_MODEL.val,
                                        !.folder_path = env.FOLDER_PATH.val,
                                        !.file_path = env.FILE_PATH.val]
            /\ pc' = "processor_init"
            /\ UNCHANGED <<exit_status, error>>
    /\ UNCHANGED <<env, folder, output_dir, shuffle_qa, shuffle_combined, doc_files,
                   idx, llm_value, emitted, llm_response, cleaned, json_data,
                   all_results, out_files, handed, succeeded, failed, write_log,
                   converted, requests>>

\* Config.__init__, lines 14-35: the model name and the two paths.
ConfigInit ==
    /\ pc = "config_init"
    /\ IF Falsy(env.OLLAMA_MODEL)
       THEN /\ Die("OLLAMA_MODEL environment variable is required")
            /\ UNCHANGED config
       ELSE IF Falsy(env.FOLDER_PATH)
       THEN /\ Die("FOLDER_PATH environment variable is required")
            /\ config' = [config EXCEPT !.ollama_model = env.OLLAMA_MODEL.val]
       ELSE IF Falsy(env.FILE_PATH)
       THEN /\ Die("FILE_PATH environment variable is required")
            /\ config' = [config EXCEPT !.ollama_model = env.OLLAMA_MODEL.val]
       ELSE /\ config' = [config EXCEPT !.loaded = TRUE,
                                        !.ollama_model = env.OLLAMA_MODEL.val,
                                        !.folder_path = env.FOLDER_PATH.val,
                                        !.file_path = env.FILE_PATH.val]
            /\ pc' = "processor_init"
            /\ UNCHANGED <<exit_status, error>>
    /\ UNCHANGED <<env, folder, output_dir, shuffle_qa, shuffle_combined, doc_files,
                   idx, llm_value, emitted, llm_response, cleaned, json_data,
                   all_results, out_files, handed, succeeded, failed, write_log,
                   converted, requests>>

\* ------------------------------------------------------- paths and folders

ExtDocx == <<".", "d", "o", "c", "x">>
ExtPptx == <<".", "p", "p", "t", "x">>
ExtPdf == <<".", "p", "d", "f">>
ExtTxt == <<".", "t", "x", "t">>
ExtMd == <<".", "m", "d">>

\* supported_extensions, in the order the code lists them.
SupportedExtensions == <<ExtDocx, ExtPptx, ExtPdf, ExtTxt, ExtMd>>

EndsWith(s, p) == Len(s) >= Len(p) /\ SubSeq(s, Len(s) - Len(p) + 1, Len(s)) = p

\* folder_path.glob("*" + ext) on a case-sensitive filesystem.
Glob(files, ext) == {f \in files : EndsWith(f, ext)}

\* The set doc_files after the loop over supported_extensions.
GlobAll(files) ==
    UNION {Glob(files, SupportedExtensions[e]) : e \in 1..Len(SupportedExtensions)}

\* Characters of file names in code-point order.
Ascii ==
    <<".", "0", "1", "2", "3", "4", "5", "6", "7", "8", "9", "_", "a", "b", "c",
      "d", "e", "f", "g", "h", "i", "j", "k", "l", "m", "n", "o", "p", "q", "r",
      "s", "t", "u", "v", "w", "x", "y", "z">>

CodePoint(c) == CHOOSE k \in 1..Len(Ascii) : Ascii[k] = c

\* a < b for two paths of the same folder: string order of the file names.
PathLess(a, b) ==
    \E k \in 1..(Len(a) + 1) :
        /\ \A j \in 1..(k - 1) : j <= Len(b) /\ a[j] = b[j]
        /\ k <= Len(b)
        /\ (k = Len(a) + 1 \/ CodePoint(a[k]) < CodePoint(b[k]))

RECURSIVE SortedPaths(_)
\* sorted(list(doc_files))
SortedPaths(S) ==
    IF S = {} THEN <<>>
    ELSE LET least == CHOOSE a \in S : \A b \in S \ {a} : PathLess(a, b)
         IN  <<least>> \o SortedPaths(S \ {least})

\* Path(doc_path).stem: the name without its last suffix.
Stem(name) ==
    LET dots == {k \in 1..Len(name) : name[k] = "."}
        last == IF dots = {} THEN 0 ELSE CHOOSE m \in dots : \A k \in dots : k <= m
    IN  IF 1 < last /\ last < Len(name) THEN SubSeq(name, 1, last - 1) ELSE name

QaDatasetSuffix ==
    <<"_", "q", "a", "_", "d", "a", "t", "a", "s", "e", "t", ".", "j", "s", "o", "n">>
CombinedSuffix ==
    <<"_", "c", "o", "m", "b", "i", "n", "e", "d", "_", "q", "a", "_", "d", "a", "t",
      "a", "s", "e", "t", ".", "j", "s", "o", "n">>

\* utils.TODAY: the date the module was loaded, as YYYYMMDD.
TODAY == <<"2", "0", "2", "6", "1", "1", "0", "6">>

CurrentDir == <<".">>
OutputDirName == <<"o", "u", "t", "p", "u", "t">>

\* The directory a file is written into: output_dir, or the working directory.
TargetDir(out) == IF out.set THEN out.val ELSE CurrentDir

\* process_document's output_file for a document.
OutputFile(out, doc) == [dir |-> TargetDir(out), name |-> Stem(doc) \o QaDatasetSuffix]

\* process_multiple_documents' combined_file.
CombinedFile(out) == [dir |-> out.val, name |-> TODAY \o CombinedSuffix]

\* ------------------------------------------------------------ random.shuffle

\* Every order random.shuffle can leave a list in.
Shuffles(items) ==
    {[k \in 1..Len(items) |-> items[p[k]]] : p \in Permutations(1..Len(items))}

\* ------------------------------------------------------------ the LLM service

KeyQuestion == <<"q", "u", "e", "s", "t", "i", "o", "n">>
KeyAnswer == <<"a", "n", "s", "w", "e", "r">>

Digit(n) == Ascii[n + 2]

QaPair(q, a) == JObj(<< <<KeyQuestion, JStr(q)>>, <<KeyAnswer, JStr(a)>> >>)

\* The n-th Q&A pair the service writes about document doc.
DocPair(doc, n) == QaPair(doc \o <<"?", Digit(n)>>, <<"A", Digit(n)>>)
DocPairs(doc, n) == [k \in 1..n |-> DocPair(doc, k)]

Prose == <<"S", "u", "r", "e", ":", "\n">>

\* A response text around the serialization text of a value.
Wrap(kind, text) ==
    CASE kind = "bare" -> text
      [] kind = "fenced" -> Prose \o Fence \o TagJson \o <<"\n">> \o text \o <<"\n">> \o Fence
      [] kind = "fenced_plain" -> Fence \o TagJson \o <<"\n">> \o text \o <<"\n">> \o Fence
      [] kind = "fenced_trailing" ->
            Fence \o TagJson \o <<"\n">> \o text \o <<"\n">> \o Fence \o <<"\n">> \o Prose
      [] kind = "fenced_untagged" -> Fence \o <<"\n">> \o text \o <<"\n">> \o Fence
      [] kind = "fenced_upper" ->
            Fence \o <<"J", "S", "O", "N", " ">> \o text \o Fence \o <<"\n", "o", "k">>
      [] kind = "padded" -> <<"\f">> \o text \o <<"\f", "\n">>
      [] kind = "padded_json_ws" -> <<" ", "\n">> \o text \o <<"\n">>
      [] kind = "truncated" -> SubSeq(text, 1, Len(text) - 1)
      [] kind = "unclosed_fence" -> Fence \o TagJson \o <<"\n">> \o text
      [] kind = "prose_only" -> Prose \o text

\* Sample answers for the parser specification: plain, holding a fence,
\* holding characters json.dump escapes.
SampleAnswers ==
    {<<"A">>,
     <<"s", "e", "e", " ", BackTick, BackTick, BackTick, "x", BackTick, BackTick, BackTick>>,
     <<Quote, "a", BackSlash, "\n", "b">>}

SamplePairs == {QaPair(<<"Q">>, a) : a \in SampleAnswers}

\* Lists of at most MaxPairs sample pairs, and one value that is not a list.
SampleValues ==
    {JList(items) : items \in UNION {[1..n -> SamplePairs] : n \in 0..MaxPairs}}
    \cup {QaPair(<<"Q">>, <<"A">>)}

WrapKinds ==
    {"bare", "fenced", "fenced_plain", "fenced_trailing", "fenced_untagged",
     "fenced_upper", "padded", "padded_json_ws", "truncated", "unclosed_fence",
     "prose_only"}


\* The files an input folder is made of: two documents with the same stem,
\* a third document, and a file whose extension is not supported.
DocAPdf == <<"a", ".", "p", "d", "f">>
DocATxt == <<"a", ".", "t", "x", "t">>
DocBMd == <<"b", ".", "m", "d">>
NotesCsv == <<"n", ".", "c", "s", "v">>

FileUniverse == {DocAPdf, DocATxt, DocBMd, NotesCsv}

\* Every text the service sends in the whole-run specification.
ServiceTexts ==
    {Wrap(kind, JsonDump(JList(DocPairs(doc, n)))) :
        doc \in FileUniverse, n \in 0..MaxPairs, kind \in {"bare", "fenced", "truncated"}}
    \cup {JsonDump(DocPair(doc, 1)) : doc \in FileUniverse}

SampleTexts == {Wrap(kind, JsonDump(value)) : value \in SampleValues, kind \in WrapKinds}

ResponseTexts == ServiceTexts \cup SampleTexts

\* clean_json_response of every response text, computed once.
CleanedOf == [text \in ResponseTexts |-> CleanJsonResponse(text)]

\* json.loads of every text handed to it, computed once.
LoadsOf ==
    [text \in ResponseTexts \cup {CleanedOf[t] : t \in ResponseTexts} |-> JsonLoads(text)]

\* -------------------------------------------------------------- main.py

setup == <<env, folder, output_dir, shuffle_qa, shuffle_combined>>
locals == <<llm_value, llm_response, cleaned, json_data>>
history == <<handed, succeeded, failed, write_log, converted, requests>>

NoText == Absent

\* main.py line 13: Processor() builds the converter and the Ollama client.
ProcessorInit ==
    /\ pc = "processor_init"
    /\ pc' = "main_mkdir"
    /\ UNCHANGED <<setup, config, doc_files, idx, emitted, locals, all_results,
                   out_files, history, exit_status, error>>

\* main.py lines 16-17 and 23-26: output_dir.mkdir(exist_ok=True) in the working
\* directory, then the banner; the script goes on to the call in the try block.
MainMkdir ==
    /\ pc = "main_mkdir"
    /\ pc' = "pmd_start"
    /\ UNCHANGED <<setup, config, doc_files, idx, emitted, locals, all_results,
                   out_files, history, exit_status, error>>

\* An exception leaving process_multiple_documents into main.py's try block.
RaiseToMain(what) ==
    /\ pc' = "main_except"
    /\ error' = what

\* main.py lines 43-45: print the error and sys.exit(1).
MainExcept ==
    /\ pc = "main_except"
    /\ pc' = "exited"
    /\ exit_status' = 1
    /\ UNCHANGED <<setup, config, doc_files, idx, emitted, locals, all_results,
                   out_files, history, error>>

\* MainReport with a failure status when no document succeeded. The exit
\* status property C9 does not hold of it.
MainReportFailsWhenEmpty ==
    /\ pc = "pmd_returned"
    /\ pc' = "exited"
    /\ exit_status' = IF all_results = <<>> THEN 1 ELSE 0
    /\ UNCHANGED <<setup, config, doc_files, idx, emitted, locals, all_results,
                   out_files, history, error>>

\* main.py lines 37-41: report the count and fall off the end of the script.
MainReport ==
    /\ pc = "pmd_returned"
    /\ pc' = "exited"
    /\ exit_status' = 0
    /\ UNCHANGED <<setup, config, doc_files, idx, emitted, locals, all_results,
                   out_files, history, error>>

\* ------------------------------- Processor.process_multiple_documents

\* Lines 156-158: the folder must exist.
CheckFolder ==
    /\ pc = "pmd_start"
    /\ IF ~folder.exists
       THEN RaiseToMain("Folder path does not exist")
       ELSE pc' = "pmd_glob" /\ UNCHANGED error
    /\ UNCHANGED <<setup, config, doc_files, idx, emitted, locals, all_results,
                   out_files, history, exit_status>>

\* Lines 160-184: enumerate, sort, return [] when nothing matched.
Enumerate ==
    /\ pc = "pmd_glob"
    /\ doc_files' = SortedPaths(GlobAll(folder.files))
    /\ pc' = IF doc_files' = <<>> THEN "pmd_returned" ELSE "pmd_loop"
    /\ UNCHANGED <<setup, config, idx, emitted, locals, all_results, out_files,
                   history, exit_status, error>>

\* Lines 185-188: the next document is handed to process_document, or the
\* loop ends.
LoopNext ==
    /\ pc = "pmd_loop"
    /\ IF idx <= Len(doc_files)
       THEN /\ handed' = Append(handed, doc_files[idx])
            /\ pc' = "convert"
       ELSE /\ pc' = "pmd_combine"
            /\ UNCHANGED handed
    /\ UNCHANGED <<setup, config, doc_files, idx, emitted, locals, all_results,
                   out_files, succeeded, failed, write_log, converted, requests,
                   exit_status, error>>

\* SkipDocument with "break" in place of "continue": the first failure ends
\* the loop. The batch property C1 does not hold of it.
SkipDocumentBreaks(stage) ==
    /\ failed' = Append(failed, <<doc_files[idx], stage>>)
    /\ idx' = idx + 1
    /\ pc' = "pmd_combine"
    /\ llm_value' = NoValue
    /\ llm_response' = NoText
    /\ cleaned' = NoText
    /\ json_data' = NoValue
    /\ UNCHANGED <<all_results, succeeded>>

\* SkipDocument with the append of line 189 moved to a "finally": the failed
\* document leaves an entry in all_results. The exclusion property C4 does
\* not hold of it.
SkipDocumentKeepsResult(stage) ==
    /\ failed' = Append(failed, <<doc_files[idx], stage>>)
    /\ idx' = idx + 1
    /\ pc' = "pmd_loop"
    /\ llm_value' = NoValue
    /\ llm_response' = NoText
    /\ cleaned' = NoText
    /\ json_data' = NoValue
    /\ all_results' = Append(all_results, json_data)
    /\ UNCHANGED succeeded

\* Lines 139-141 and 191-193: an exception in process_document is re-raised,
\* caught by the loop, logged, and the loop continues with the next document.
SkipDocument(stage) ==
    /\ failed' = Append(failed, <<doc_files[idx], stage>>)
    /\ idx' = idx + 1
    /\ pc' = "pmd_loop"
    /\ llm_value' = NoValue
    /\ llm_response' = NoText
    /\ cleaned' = NoText
    /\ json_data' = NoValue
    /\ UNCHANGED <<all_results, succeeded>>

\* ------------------------------------------- Processor.process_document

\* Lines 103-105 (md_converter): the converter returns markdown or raises.
MdConverter ==
    /\ pc = "convert"
    /\ converted' = Append(converted, doc_files[idx])
    /\ \/ /\ pc' = "generate"
          /\ UNCHANGED <<idx, locals, all_results, succeeded, failed>>
       \/ SkipDocument("convert")
    /\ UNCHANGED <<setup, config, doc_files, emitted, out_files, handed, write_log,
                   requests, exit_status, error>>

\* Lines 108-110 (llm_qa_generator): one chat request; the service answers
\* with text or the call raises.  The text is a list of Q&A pairs (bare or
\* fenced), a single object, or a list cut short.
LlmQaGenerator ==
    /\ pc = "generate"
    /\ requests' = Append(requests, [host |-> config.ollama_host, doc |-> doc_files[idx]])
    /\ \/ /\ SkipDocument("generate")
          /\ UNCHANGED emitted
       \/ \E n \in 0..(MaxPairs - emitted), kind \in {"bare", "fenced"} :
             /\ llm_value' = JList(DocPairs(doc_files[idx], n))
             /\ llm_response' = Set(Wrap(kind, JsonDump(llm_value')))
             /\ emitted' = emitted + n
             /\ pc' = "parse"
             /\ UNCHANGED <<idx, cleaned, json_data, all_results, succeeded, failed>>
       \/ /\ llm_value' = DocPair(doc_files[idx], 1)
          /\ llm_response' = Set(JsonDump(llm_value'))
          /\ pc' = "parse"
          /\ UNCHANGED <<idx, emitted, cleaned, json_data, all_results, succeeded, failed>>
       \/ /\ llm_value' = JList(DocPairs(doc_files[idx], 1))
          /\ llm_response' = Set(Wrap("truncated", JsonDump(llm_value')))
          /\ pc' = "parse"
          /\ UNCHANGED <<idx, emitted, cleaned, json_data, all_results, succeeded, failed>>
    /\ UNCHANGED <<setup, config, doc_files, out_files, handed, write_log, converted,
                   exit_status, error>>

\* TryDirect without the direct attempt: the response always goes to
\* clean_json_response first. The fallback property C10 does not hold of it.
TryDirectAlwaysCleans ==
    /\ pc = "parse"
    /\ pc' = "parse_clean"
    /\ UNCHANGED <<setup, config, doc_files, idx, llm_value, emitted, llm_response,
                   cleaned, json_data, all_results, out_files, history, exit_status,
                   error>>

\* utils.parse_llm_response lines 124-126: json.loads on the text as it is.
TryDirect ==
    /\ pc = "parse"
    /\ LET direct == LoadsOf[llm_response.val]
       IN  IF direct.ok
           THEN /\ json_data' = direct.v
                /\ pc' = "shuffle"
           ELSE /\ pc' = "parse_clean"
                /\ UNCHANGED json_data
    /\ UNCHANGED <<setup, config, doc_files, idx, llm_value, emitted, llm_response,
                   cleaned, all_results, out_files, history, exit_status, error>>

\* utils.parse_llm_response line 128: cleaned_response = clean_json_response(...)
CleanStep ==
    /\ pc = "parse_clean"
    /\ cleaned' = Set(CleanedOf[llm_response.val])
    /\ pc' = "parse_retry"
    /\ UNCHANGED <<setup, config, doc_files, idx, llm_value, emitted, llm_response,
                   json_data, all_results, out_files, history, exit_status, error>>

\* utils.parse_llm_response line 129: json.loads(cleaned_response); a
\* JSONDecodeError leaves process_document and is caught by the batch loop.
RetryParse ==
    /\ pc = "parse_retry"
    /\ LET again == LoadsOf[cleaned.val]
       IN  IF again.ok
           THEN /\ json_data' = again.v
                /\ pc' = "shuffle"
                /\ UNCHANGED <<idx, llm_value, llm_response, cleaned, all_results,
                               succeeded, failed>>
           ELSE SkipDocument("parse")
    /\ UNCHANGED <<setup, config, doc_files, emitted, out_files, handed, write_log,
                   converted, requests, exit_status, error>>

\* Lines 117-120: random.shuffle(json_data) when asked to and it is a list.
ShuffleQa ==
    /\ pc = "shuffle"
    /\ IF shuffle_qa /\ IsList(json_data)
       THEN \E order \in Shuffles(json_data.v) : json_data' = JList(order)
       ELSE UNCHANGED json_data
    /\ pc' = "persist"
    /\ UNCHANGED <<setup, config, doc_files, idx, llm_value, emitted, llm_response,
                   cleaned, all_results, out_files, history, exit_status, error>>

\* open(path, 'w') succeeded and json.dump(data, f, indent=2) ran: to the end
\* (complete) or until an OSError cut it short.  A whole file is held as the
\* value whose serialization it holds; a file cut short holds some proper
\* prefix of a serialization, which is no value (NoValue).
WriteFile(path, data, complete, who) ==
    /\ out_files' =
          (path :> [complete |-> complete, data |-> IF complete THEN data ELSE NoValue])
              @@ out_files
    /\ write_log' = Append(write_log, [path |-> path, by |-> who, complete |-> complete])

\* Lines 122-137: mkdir, open, json.dump, return json_data; the caller appends
\* the result (line 190).  An OSError from mkdir or open leaves the file
\* system as it was; one raised while writing leaves a truncated file.
Persist ==
    /\ pc = "persist"
    /\ LET doc == doc_files[idx]
           path == OutputFile(output_dir, doc)
       IN  \/ /\ WriteFile(path, json_data, TRUE, doc)
              /\ all_results' = Append(all_results, json_data)
              /\ succeeded' = Append(succeeded, doc)
              /\ idx' = idx + 1
              /\ pc' = "pmd_loop"
              /\ llm_value' = NoValue
              /\ llm_response' = NoText
              /\ cleaned' = NoText
              /\ json_data' = NoValue
              /\ UNCHANGED failed
           \/ /\ SkipDocument("write")
              /\ UNCHANGED <<out_files, write_log>>
           \/ /\ SkipDocument("write")
              /\ WriteFile(path, json_data, FALSE, doc)
    /\ UNCHANGED <<setup, config, doc_files, emitted, handed, converted, requests,
                   exit_status, error>>

\* ------------------------- process_multiple_documents, lines 195-216

RECURSIVE FlattenNewestFirst(_)
\* Flatten with the results taken last to first (combined_qa built by
\* prepending). The concatenation property C2 does not hold of it.
FlattenNewestFirst(results) ==
    IF results = <<>> THEN <<>>
    ELSE FlattenNewestFirst(Tail(results))
            \o (IF IsList(Head(results)) THEN Head(results).v ELSE <<>>)

RECURSIVE Flatten(_)
\* combined_qa: the items of every list-shaped result, in order.
Flatten(results) ==
    IF results = <<>> THEN <<>>
    ELSE (IF IsList(Head(results)) THEN Head(results).v ELSE <<>>)
            \o Flatten(Tail(results))

\* The orders combined_qa can be written in.
CombinedOrders(results, shuffle) ==
    IF shuffle /\ Flatten(results) # <<>>
    THEN Shuffles(Flatten(results))
    ELSE {Flatten(results)}

\* The writer named in write_log for the combined file (no document).
CombinedTag == <<>>

\* Combine without the "and all_results" of line 196: the combined file is
\* written whenever an output directory is given. The property C7 does not
\* hold of it.
CombineWithoutResults ==
    /\ pc = "pmd_combine"
    /\ IF output_dir.set
       THEN \/ \E order \in CombinedOrders(all_results, shuffle_combined) :
                 /\ WriteFile(CombinedFile(output_dir), JList(order), TRUE, CombinedTag)
                 /\ pc' = "pmd_returned"
                 /\ UNCHANGED error
            \/ /\ RaiseToMain("OSError: cannot write the combined file")
               /\ UNCHANGED <<out_files, write_log>>
            \/ /\ RaiseToMain("OSError: cannot write the combined file")
               /\ WriteFile(CombinedFile(output_dir), NoValue, FALSE, CombinedTag)
       ELSE /\ pc' = "pmd_returned"
            /\ UNCHANGED <<out_files, write_log, error>>
    /\ UNCHANGED <<setup, config, doc_files, idx, emitted, locals, all_results,
                   handed, succeeded, failed, converted, requests, exit_status>>

\* Lines 195-216: the combined dataset, written when an output directory was
\* given and some document succeeded; an error of the write leaves the method.
Combine ==
    /\ pc = "pmd_combine"
    /\ IF output_dir.set /\ all_results # <<>>
       THEN \/ \E order \in CombinedOrders(all_results, shuffle_combined) :
                 /\ WriteFile(CombinedFile(output_dir), JList(order), TRUE, CombinedTag)
                 /\ pc' = "pmd_returned"
                 /\ UNCHANGED error
            \/ /\ RaiseToMain("OSError: cannot write the combined file")
               /\ UNCHANGED <<out_files, write_log>>
            \/ /\ RaiseToMain("OSError: cannot write the combined file")
               /\ WriteFile(CombinedFile(output_dir), NoValue, FALSE, CombinedTag)
       ELSE /\ pc' = "pmd_returned"
            /\ UNCHANGED <<out_files, write_log, error>>
    /\ UNCHANGED <<setup, config, doc_files, idx, emitted, locals, all_results,
                   handed, succeeded, failed, converted, requests, exit_status>>

\* --------------------------------------------------------- specifications

ModelName == <<"m">>
FolderName == <<"d", "o", "c", "s">>
FileName == <<"f">>

GoodEnv ==
    [OLLAMA_HOST |-> Set(HostPort(AllInterfaces, DefaultPort)),
     OLLAMA_MODEL |-> Set(ModelName),
     FOLDER_PATH |-> Set(FolderName),
     FILE_PATH |-> Set(FileName)]

\* Environments of the whole-run specification: complete, or one setting
\* absent or empty.
MainEnvs ==
    {GoodEnv} \cup
    {[GoodEnv EXCEPT ![k] = bad] :
        k \in {"OLLAMA_HOST", "OLLAMA_MODEL", "FOLDER_PATH", "FILE_PATH"},
        bad \in {Absent, Set(<<>>)}}

HostValues ==
    {Absent, Set(<<>>), Set(RemoteHost), Set(Localhost)}
    \cup {Set(HostPort(h, port)) : h \in {AllInterfaces, Localhost, RemoteHost},
                                  port \in Ports}
    \cup {Set(scheme \o HostPort(h, port)) :
            scheme \in {SchemeHttp, SchemeHttps}, h \in {AllInterfaces, RemoteHost},
            port \in Ports}

\* Environments of the configuration specification: every combination.
AllEnvs ==
    [OLLAMA_HOST : HostValues,
     OLLAMA_MODEL : {Absent, Set(<<>>), Set(ModelName)},
     FOLDER_PATH : {Absent, Set(<<>>), Set(FolderName)},
     FILE_PATH : {Absent, Set(<<>>), Set(FileName)}]


\* The input folder: missing, or holding at most MaxFiles files.
Folders ==
    {[exists |-> FALSE, files |-> {}]} \cup
    {[exists |-> TRUE, files |-> S] :
        S \in {T \in SUBSET FileUniverse : Cardinality(T) <= MaxFiles}}

\* The state every run starts from, before config.py is imported.
Start(envs, folders, dirs) ==
    /\ env \in envs
    /\ config = NoConfig
    /\ folder \in folders
    /\ output_dir \in dirs
    /\ shuffle_qa \in BOOLEAN
    /\ shuffle_combined \in (IF output_dir.set THEN BOOLEAN ELSE {TRUE})
    /\ pc = "import_config"
    /\ doc_files = <<>>
    /\ idx = 1
    /\ llm_value = NoValue
    /\ emitted = 0
    /\ llm_response = NoText
    /\ cleaned = NoText
    /\ json_data = NoValue
    /\ all_results = <<>>
    /\ out_files = <<>>
    /\ handed = <<>>
    /\ succeeded = <<>>
    /\ failed = <<>>
    /\ write_log = <<>>
    /\ converted = <<>>
    /\ requests = <<>>
    /\ exit_status = "running"
    /\ error = "none"

Init == Start(MainEnvs, Folders, {Absent, Set(OutputDirName)})

Next ==
    \/ GetOllamaHost
    \/ ConfigInit
    \/ ProcessorInit
    \/ MainMkdir
    \/ CheckFolder
    \/ Enumerate
    \/ LoopNext
    \/ MdConverter
    \/ LlmQaGenerator
    \/ TryDirect
    \/ CleanStep
    \/ RetryParse
    \/ ShuffleQa
    \/ Persist
    \/ Combine
    \/ MainReport
    \/ MainExcept

Spec == Init /\ [][Next]_vars

\* The script is one sequential thread: whatever step is enabled is taken
\* (the converter, the LLM call and the file system calls return).
FairSpec == Spec /\ WF_vars(Next)

\* Configuration loading alone, over every environment.
InitConfig ==
    Start(AllEnvs, {[exists |-> TRUE, files |-> {}]}, {Set(OutputDirName)})

NextConfig == GetOllamaHost \/ ConfigInit

SpecConfig == InitConfig /\ [][NextConfig]_vars

\* The response parser alone: process_document stands at line 114 with a
\* response in hand, for every response text of the sample.
InitParse ==
    /\ env = GoodEnv
    /\ config = [loaded |-> TRUE,
                 ollama_host |-> NormalizeHost(GoodEnv.OLLAMA_HOST.val),
                 ollama_model |-> ModelName, folder_path |-> FolderName,
                 file_path |-> FileName]
    /\ folder = [exists |-> TRUE, files |-> {DocATxt}]
    /\ output_dir = Set(OutputDirName)
    /\ shuffle_qa = TRUE
    /\ shuffle_combined = TRUE
    /\ pc = "parse"
    /\ doc_files = <<DocATxt>>
    /\ idx = 1
    /\ \E value \in SampleValues, kind \in WrapKinds :
          /\ llm_value = value
          /\ llm_response = Set(Wrap(kind, JsonDump(value)))
    /\ emitted = IF IsList(llm_value) THEN Len(llm_value.v) ELSE 0
    /\ cleaned = NoText
    /\ json_data = NoValue
    /\ all_results = <<>>
    /\ out_files = <<>>
    /\ handed = <<DocATxt>>
    /\ succeeded = <<>>
    /\ failed = <<>>
    /\ write_log = <<>>
    /\ converted = <<DocATxt>>
    /\ requests = <<[host |-> config.ollama_host, doc |-> DocATxt]>>
    /\ exit_status = "running"
    /\ error = "none"

NextParse == TryDirect \/ CleanStep \/ RetryParse

SpecParse == InitParse /\ [][NextParse]_vars

\* ============================================================== properties

\* The loop over the documents is over (line 195 reached or passed).
LoopOver == pc \in {"pmd_combine", "pmd_returned", "main_except", "exited"} /\ doc_files # <<>>

\* process_multiple_documents returned normally (line 216 or line 178).
Returned == pc = "pmd_returned" \/ (pc = "exited" /\ exit_status = 0)

IsPrefixOf(a, b) == Len(a) <= Len(b) /\ \A k \in 1..Len(a) : a[k] = b[k]

\* The documents of a sequence, as a set.
Range(seq) == {seq[k] : k \in 1..Len(seq)}

\* The item is a Q&A pair the service wrote about the document.
PairOf(item, doc) ==
    /\ item.t = "obj"
    /\ Len(item.v) = 2
    /\ StartsWith(item.v[1][2].v, doc \o <<"?">>)

\* Positions of write_log at which the combined file was opened for writing.
CombinedWrites == {k \in 1..Len(write_log) : write_log[k].by = CombinedTag}

\* b holds the elements of a, each as often, in some order.
IsPermutationOf(a, b) ==
    /\ Len(a) = Len(b)
    /\ \A x \in Range(a) \cup Range(b) :
          Cardinality({k \in 1..Len(a) : a[k] = x}) =
          Cardinality({k \in 1..Len(b) : b[k] = x})

\* ------------------------------------------------------------------- C1
\* doc_files is in strictly increasing path order.
C1_Sorted ==
    \A k \in 1..(Len(doc_files) - 1) : PathLess(doc_files[k], doc_files[k + 1])

\* The documents handed over so far are the first ones of the sorted list of
\* the folder's documents, and the whole list once the loop is over.
C1_Safety ==
    /\ C1_Sorted
    /\ Range(doc_files) \in {{}, GlobAll(folder.files)}
    /\ IsPrefixOf(handed, doc_files)
    /\ LoopOver => handed = doc_files
    /\ failed # <<>> /\ pc = "main_except" =>
          error = "OSError: cannot write the combined file" /\ handed = doc_files

\* C1: every enumerated file is handed to process_document exactly once, in
\* sorted-path order, whatever happened to the documents before it: at every
\* moment the documents handed over so far are the first ones of the sorted
\* list, once the loop is over they are the whole list, a failure of one
\* document is followed by the next step of the loop and never by an
\* exception leaving the batch, and the batch, once it has enumerated the
\* folder, reaches its end.
C1_EveryDocumentHandedOnce ==
    /\ []C1_Safety
    /\ [][Len(failed') > Len(failed) => pc' = "pmd_loop" /\ idx' = idx + 1]_vars
    /\ (pc = "pmd_glob") ~> (pc = "exited" /\ (doc_files # <<>> => handed = doc_files))

\* C1 witness: the first of two documents failed, the second was still handed
\* over, and the batch returned.
C1_Witness ==
    /\ pc = "pmd_returned"
    /\ Len(doc_files) = 2
    /\ failed # <<>> /\ failed[1][1] = doc_files[1]
    /\ handed = doc_files

\* ------------------------------------------------------------------- C2
RECURSIVE ConcatLists(_)
\* The concatenation of a sequence of list-shaped results.
ConcatLists(results) ==
    IF results = <<>> THEN <<>> ELSE Head(results).v \o ConcatLists(Tail(results))

AllLists(results) == \A k \in 1..Len(results) : IsList(results[k])

\* C2: when an output directory is given and at least one document succeeded,
\* the combined file holds the concatenation of the successful documents'
\* results (Q&A lists), each in the order of its own result, in sorted-path
\* order of the documents: exactly that sequence when shuffle_combined is
\* false, a permutation of it when shuffle_combined is true.
C2_CombinedIsConcatenation ==
    Returned /\ output_dir.set /\ all_results # <<>> /\ AllLists(all_results) =>
        /\ CombinedFile(output_dir) \in DOMAIN out_files
        /\ LET file == out_files[CombinedFile(output_dir)]
               expected == ConcatLists(all_results)
           IN  /\ file.complete
               /\ IsList(file.data)
               /\ ~shuffle_combined => file.data.v = expected
               /\ shuffle_combined => IsPermutationOf(expected, file.data.v)
        /\ Len(succeeded) = Len(all_results)
        /\ \A k \in 1..Len(succeeded) :
              \A n \in 1..Len(all_results[k].v) : PairOf(all_results[k].v[n], succeeded[k])
        /\ \A k \in 1..(Len(succeeded) - 1) : PathLess(succeeded[k], succeeded[k + 1])

\* C2 witness: two documents succeeded, the first with two pairs and the
\* second with one, and the combined file was written unshuffled.
C2_Witness ==
    /\ Returned /\ output_dir.set /\ ~shuffle_combined
    /\ Len(all_results) = 2 /\ AllLists(all_results)
    /\ Len(all_results[1].v) = 2 /\ Len(all_results[2].v) = 1
    /\ CombinedFile(output_dir) \in DOMAIN out_files

\* ------------------------------------------------------------------- C3
\* C3: within one run no two writes target the same output path, and when the
\* run returns every successful document has its own per-document file
\* holding that document's data.
C3_NoWriteConflict ==
    /\ \A i, j \in 1..Len(write_log) : i # j => write_log[i].path # write_log[j].path
    /\ Returned =>
          \A k \in 1..Len(succeeded) :
             LET path == OutputFile(output_dir, succeeded[k])
             IN  /\ path \in DOMAIN out_files
                 /\ out_files[path].complete
                 /\ out_files[path].data = all_results[k]

\* ------------------------------------------------------------------- C4
\* Documents that failed at conversion, generation or parsing.
FailedEarly == {failed[k][1] : k \in {n \in 1..Len(failed) : failed[n][2] # "write"}}

\* C4: a document whose conversion, generation or parsing failed gets no
\* per-document file written, has none of its pairs in the combined file and
\* no entry in the result list; once the loop is over the result list has
\* (documents found - documents failed) entries, one per successful document
\* in enumeration order.
C4_FailedDocumentsExcluded ==
    /\ \A doc \in FailedEarly :
          /\ \A k \in 1..Len(write_log) : write_log[k].by # doc
          /\ doc \notin Range(succeeded)
          /\ \A k \in 1..Len(all_results) :
                IsList(all_results[k]) =>
                   \A n \in 1..Len(all_results[k].v) : ~PairOf(all_results[k].v[n], doc)
          /\ \A path \in DOMAIN out_files :
                out_files[path].complete /\ IsList(out_files[path].data) =>
                   \A n \in 1..Len(out_files[path].data.v) :
                      ~PairOf(out_files[path].data.v[n], doc)
    /\ Len(all_results) = Len(succeeded)
    /\ Range(succeeded) \cap {failed[k][1] : k \in 1..Len(failed)} = {}
    /\ \A k \in 1..(Len(succeeded) - 1) : PathLess(succeeded[k], succeeded[k + 1])
    /\ LoopOver => Len(all_results) = Len(doc_files) - Len(failed)

\* C4 witness: of two documents the first failed at parsing and the second
\* succeeded, and the combined file was written.
C4_Witness ==
    /\ Returned /\ Len(doc_files) = 2
    /\ failed = <<<<doc_files[1], "parse">>>>
    /\ succeeded = <<doc_files[2]>>
    /\ CombinedWrites # {}

\* ------------------------------------------------------------------- C5
\* The value is a JSON array of {question, answer} objects.
IsQaArray(x) ==
    /\ IsList(x)
    /\ \A k \in 1..Len(x.v) :
          /\ x.v[k].t = "obj"
          /\ Len(x.v[k].v) = 2
          /\ x.v[k].v[1][1] = KeyQuestion /\ x.v[k].v[1][2].t = "str"
          /\ x.v[k].v[2][1] = KeyAnswer /\ x.v[k].v[2][2].t = "str"

\* The text is the serialization of the value, bare or in a ```json fence,
\* with or without prose around the fence.
BareOrFenced(text, value) ==
    \E kind \in {"bare", "fenced", "fenced_plain", "fenced_trailing"} :
        text = Wrap(kind, JsonDump(value))

\* C5: for every JSON array A of {question, answer} objects, parsing the bare
\* serialization of A and parsing the same serialization inside a ```json
\* fence (with or without prose around it) both succeed and return A: the
\* step that ends the parse of such a response ends it with json_data = A.
C5_BareAndFencedParseAlike ==
    [][(/\ llm_response.set
        /\ IsQaArray(llm_value)
        /\ BareOrFenced(llm_response.val, llm_value)
        /\ pc \in {"parse", "parse_retry"}
        /\ pc' # "parse_clean")
       => (pc' = "shuffle" /\ json_data' = llm_value)]_vars

\* ------------------------------------------------------------------- C6
\* C6: for every port p the host 0.0.0.0:p becomes http://localhost:p, and
\* the address configured always starts with http:// or https://.
C6_HostNormalized ==
    config.ollama_host # <<>> =>
        /\ \A port \in Ports :
              env.OLLAMA_HOST.val = HostPort(AllInterfaces, port) =>
                 config.ollama_host = SchemeHttp \o HostPort(Localhost, port)
        /\ StartsWith(config.ollama_host, SchemeHttp)
              \/ StartsWith(config.ollama_host, SchemeHttps)

\* ------------------------------------------------------------------- C7
\* C7: the combined file is written at most once and only after every
\* document has been processed; a run that returns has written it if and
\* only if an output directory was given and at least one document
\* succeeded; a folder with no supported file, and a run in which every
\* document failed, return an empty list and write no combined file.
C7_CombinedWrittenIffSuccess ==
    /\ Cardinality(CombinedWrites) <= 1
    /\ \A k \in CombinedWrites :
          /\ k = Len(write_log)
          /\ handed = doc_files
          /\ Len(succeeded) + Len(failed) = Len(doc_files)
          /\ write_log[k].path = CombinedFile(output_dir)
    /\ Returned =>
          /\ CombinedWrites # {} <=> (output_dir.set /\ succeeded # <<>>)
          /\ GlobAll(folder.files) = {} => all_results = <<>> /\ CombinedWrites = {}
          /\ Len(failed) = Len(doc_files) => all_results = <<>> /\ CombinedWrites = {}
    /\ pc = "exited" /\ folder.exists /\ config.loaded /\ succeeded = <<>> => exit_status = 0

\* C7 witness: an output directory was given, the folder held two documents,
\* both failed, and the run returned without writing a combined file.
C7_Witness ==
    /\ Returned /\ output_dir.set
    /\ Len(doc_files) = 2 /\ Len(failed) = 2
    /\ CombinedWrites = {}
    /\ all_results = <<>>

\* ------------------------------------------------------------------- C8
MissingSettings ==
    {k \in {"OLLAMA_HOST", "OLLAMA_MODEL", "FOLDER_PATH", "FILE_PATH"} : Falsy(env[k])}

RequiredMessage(k) ==
    CASE k = "OLLAMA_HOST" -> "OLLAMA_HOST environment variable is required"
      [] k = "OLLAMA_MODEL" -> "OLLAMA_MODEL environment variable is required"
      [] k = "FOLDER_PATH" -> "FOLDER_PATH environment variable is required"
      [] k = "FILE_PATH" -> "FILE_PATH environment variable is required"

\* C8: when a required setting is absent or empty, or the input folder does
\* not exist, nothing is ever converted, requested from the LLM or written,
\* the run never ends with status zero, and it ends with status one and an
\* error naming a missing setting (or the missing folder).
C8_ConfigurationErrorsFatal ==
    MissingSettings # {} \/ ~folder.exists =>
        /\ converted = <<>> /\ requests = <<>> /\ handed = <<>>
        /\ write_log = <<>> /\ out_files = <<>> /\ all_results = <<>>
        /\ pc \in {"import_config", "config_init", "processor_init", "main_mkdir",
                   "pmd_start", "main_except", "exited"}
        /\ MissingSettings # {} => pc \in {"import_config", "config_init", "exited"}
        /\ pc = "exited" =>
              /\ exit_status = 1
              /\ IF MissingSettings # {}
                 THEN error \in {RequiredMessage(k) : k \in MissingSettings}
                 ELSE error = "Folder path does not exist"

\* C8 witness: FILE_PATH is missing, the folder exists and holds documents,
\* and the run has ended with status one.
C8_Witness ==
    /\ pc = "exited" /\ exit_status = 1
    /\ MissingSettings = {"FILE_PATH"}
    /\ folder.exists /\ GlobAll(folder.files) # {}

\* ------------------------------------------------------------------- C9
\* C9: once the configuration has loaded and the script has called the batch
\* driver, the process exits with status zero whenever the driver returned,
\* however many documents failed, and with a non-zero status exactly when an
\* exception left the driver (missing folder, combined file not writable),
\* the error having been recorded for printing.
C9_ExitStatus ==
    /\ pc = "exited" /\ config.loaded =>
          /\ exit_status \in {0, 1}
          /\ exit_status # 0 <=>
                error \in {"Folder path does not exist",
                           "OSError: cannot write the combined file"}
          /\ exit_status = 0 <=> error = "none"
          /\ error = "Folder path does not exist" <=> ~folder.exists
          /\ error = "OSError: cannot write the combined file" =>
                output_dir.set /\ succeeded # <<>>
    /\ pc = "pmd_returned" => error = "none"
    /\ config.loaded /\ pc # "exited" => exit_status = "running"

\* C9 witness: two documents, both failed (one of them at the write of its
\* file), and the process exited with status zero.
C9_Witness ==
    /\ pc = "exited" /\ exit_status = 0
    /\ Len(doc_files) = 2 /\ Len(failed) = 2
    /\ \E k \in 1..2 : failed[k][2] = "write"

\* ------------------------------------------------------------------ C10
\* No fence is found in the response by clean_json_response.
NoFence == ~FenceSearch(llm_response.val).found

\* str.strip() removed whitespace that json.loads does not skip.
StripOf(s, ws) ==
    LET keep == {j \in 1..Len(s) : s[j] \notin ws}
    IN  IF keep = {} THEN <<>>
        ELSE SubSeq(s, Min(keep), CHOOSE m \in keep : \A k \in keep : k <= m)

WritesTo(path) == {k \in 1..Len(write_log) : write_log[k].path = path}

\* A parsed value that is not a list reaches the write as the service sent
\* it (line 118 shuffles lists only), is written whole to the document's
\* file (lines 133-134; the file holds it as long as no later write of the
\* run opened the same path), is returned and is kept in all_results at the
\* document's position (line 189).
NonListKept ==
    /\ pc = "persist" /\ ~IsList(llm_value) => json_data = llm_value
    /\ Len(all_results) = Len(succeeded)
    /\ \A k \in 1..Len(all_results) :
          ~IsList(all_results[k]) =>
             LET doc == succeeded[k]
                 path == OutputFile(output_dir, doc)
                 last == CHOOSE w \in WritesTo(path) : \A v \in WritesTo(path) : v <= w
             IN  /\ all_results[k] = DocPair(doc, 1)
                 /\ \E w \in WritesTo(path) : write_log[w].by = doc /\ write_log[w].complete
                 /\ write_log[last].by = doc =>
                       out_files[path].complete /\ out_files[path].data = all_results[k]

\* C11: a valid JSON value that is not a list is accepted and passed through
\* unchanged: it is not shuffled, it is written as it is to the document's
\* file, returned and kept in the result list, and when the combined file is
\* written it is carried into it like the result of any other successful
\* document.
C11_NonListPassedThrough ==
    /\ NonListKept
    /\ Returned /\ output_dir.set /\ all_results # <<>> =>
          /\ CombinedFile(output_dir) \in DOMAIN out_files
          /\ LET file == out_files[CombinedFile(output_dir)]
             IN  \A k \in 1..Len(all_results) :
                    ~IsList(all_results[k]) =>
                       /\ IsList(file.data)
                       /\ \E n \in 1..Len(file.data.v) : file.data.v[n] = all_results[k]

====
